---------------------------- MODULE Spec2Model ----------------------------
(***************************************************************************)
(* OntoCheck, package Onto_Assessment.                                     *)
(*                                                                         *)
(* The repository has three entry points that this module models:         *)
(*   - run_ontology_assessment (run_assessment.py), the orchestrator that  *)
(*     dispatches metric names to metric functions and writes a CSV;       *)
(*   - mainAltLabelCheck_v_0_0_1 (altLabelCheck.py) and                    *)
(*     mainDefCheck_v_0_0_1 (defCheck.py), the command-line coverage       *)
(*     checks: parse, class discovery, coverage analysis, display, export; *)
(*   - the qualitative banding of a coverage percentage, whose thresholds  *)
(*     are documented in the two checks.                                   *)
(* A behaviour of Spec is a run of one of the three: Init picks the entry  *)
(* point and its inputs, the other two stay "off".                         *)
(***************************************************************************)
EXTENDS Integers, Sequences, FiniteSets

VARIABLES
    \* ---- run_ontology_assessment ----
    pc,              \* "off" | "idle" | "loop" | "csv" | "finish"
    ttl_ok,          \* whether ttl_file is a parsable ontology file
    metrics,         \* the list of requested metric names
    csv_writable,    \* whether output_csv_file can be opened for writing
    idx,             \* position of the for loop in metrics (1-based)
    results,         \* the list of result rows
    invoked,         \* the calls metric_function(ttl_file) made, with outcome
    handlers,        \* handlers attached to the root logger
    csvfile,         \* contents of output_csv_file on disk
    logged,          \* the marker messages logged by the current call
    calls,           \* number of calls of run_ontology_assessment so far
    exit,            \* how the last call ended
    \* ---- mainAltLabelCheck_v_0_0_1 / mainDefCheck_v_0_0_1 ----
    cpc,             \* "off" | "parse" | "discover" | ... | "done"
    check,           \* "alt" | "def"
    file,            \* "ok" | "missing" | "malformed"
    content,         \* the graph the file serialises
    g,               \* the rdflib Graph
    show,            \* args.show
    export_template, \* args.export_template
    dest_writable,   \* whether the template destination can be written
    all_classes,
    classes_with,
    classes_without,
    executed,        \* the helper calls made so far
    printed,         \* the messages printed by the main function itself
    summary,         \* what the summary statistics step reported
    template,        \* contents of the exported template file
    cexit,           \* how the main function ended
    \* ---- qualitative banding ----
    spc,             \* "off" | "input" | "done"
    tbl,             \* "alt" | "def": which threshold table
    n_with,          \* number of covered classes
    n_total,         \* number of named classes
    band,            \* the band reported
    percent10        \* the coverage percentage, in tenths of a percent

orchVars == <<pc, ttl_ok, metrics, csv_writable, idx, results, invoked,
              handlers, csvfile, logged, calls, exit>>
checkVars == <<cpc, check, file, content, g, show, export_template,
               dest_writable, all_classes, classes_with, classes_without,
               executed, printed, summary, template, cexit>>
bandVars == <<spc, tbl, n_with, n_total, band, percent10>>
vars == <<orchVars, checkVars, bandVars>>

-----------------------------------------------------------------------------
(* Bounds of the model.                                                    *)

\* longest list of metric names passed to one call
MaxMetrics == 3
\* number of calls of run_ontology_assessment in one behaviour
MaxCalls == 2
\* longest annotation literal, in characters
MaxLen == 2
\* most annotation values attached to one class
MaxValues == 2
\* largest number of named classes given to the banding
MaxTotal == 10

-----------------------------------------------------------------------------
(* run_assessment.py                                                       *)

\* The keys of METRIC_DISPATCHER.
METRIC_DISPATCHER ==
    {"altLabelCheck", "externalLinks", "isolatedElements", "humanLicense",
     "rdfDump", "sparqlEndpoint", "classConnections", "definitionCheck",
     "duplicateLabels", "missingDomainRange", "leafNodeCheck",
     "semanticConnection"}

\* The dispatcher entries whose function is defined in this package with no
\* parameters: def mainAltLabelCheck_v_0_0_1(): and def mainDefCheck_v_0_0_1():
ZeroArgMetrics == {"altLabelCheck", "definitionCheck"}

\* The names a caller passes in the model: two keys of the dispatcher with a
\* function of each kind, and a name that is no key.
RequestNames == {"altLabelCheck", "isolatedElements", "noSuchMetric"}

Lists(S, n) == UNION {[1..k -> S] : k \in 0..n}

\* An analyzer whose body is outside the package sources shown: it returns a
\* score or raises an unexpected condition (MetricExecutionError).
ExternalMetric(ttl) ==
    {[raised |-> FALSE, value |-> "0.5", msg |-> ""],
     [raised |-> TRUE, value |-> "", msg |-> "metric failed"]}

\* metric_function(ttl_file): a function defined with no parameters raises
\* TypeError when called with one positional argument.
MetricCall(name, ttl) ==
    IF name \in ZeroArgMetrics
    THEN {[raised |-> TRUE, value |-> "",
           msg |-> "takes 0 positional arguments but 1 was given"]}
    ELSE ExternalMetric(ttl)

\* The two rows the loop appends. f"Error: {e}" is kept as its two parts.
SuccessRow(name, score) ==
    [Metric |-> name, Score |-> score, Status |-> <<"Success">>]
ErrorRow(name, msg) ==
    [Metric |-> name, Score |-> "N/A", Status |-> <<"Error: ", msg>>]

\* The encoding passed to open() for the CSV, and the codecs Python knows.
CsvEncoding == "utf-utf-8"
KnownEncodings == {"utf-8", "utf_8", "utf8", "ascii", "latin-1"}

\* open(output_csv_file, 'w', newline='', encoding=...): the raw file is
\* opened first (OSError when the path is not writable; the file is created
\* or truncated otherwise), then the text layer looks the codec up.
OpenForWrite(writable, encoding) ==
    IF ~writable THEN "IOError"
    ELSE IF encoding \notin KnownEncodings THEN "LookupError"
    ELSE "ok"

fieldnames == <<"Metric", "Score", "Status">>
NoFile == [exists |-> FALSE, header |-> <<>>, rows |-> <<>>]
EmptyFile == [exists |-> TRUE, header |-> <<>>, rows |-> <<>>]

\* Lines 54-66: logging set up, the console handler added, results = [].
\* logging.basicConfig attaches the file handler only when the root logger
\* has no handler yet.
Call ==
    /\ pc = "idle"
    /\ calls < MaxCalls
    /\ \E ms \in Lists(RequestNames, MaxMetrics), w \in BOOLEAN, t \in BOOLEAN :
          /\ metrics' = ms
          /\ csv_writable' = w
          /\ ttl_ok' = t
    /\ handlers' = [file |-> (handlers.file \/ handlers.console = 0),
                    console |-> handlers.console + 1]
    /\ logged' = {"start"}
    /\ results' = <<>>
    /\ invoked' = <<>>
    /\ idx' = 1
    /\ calls' = calls + 1
    /\ exit' = "running"
    /\ pc' = "loop"
    /\ UNCHANGED <<csvfile, checkVars, bandVars>>

\* SkipUnknown with break in place of continue: an unknown name ends the loop.
SkipUnknownBreak ==
    /\ pc = "loop"
    /\ idx <= Len(metrics)
    /\ metrics[idx] \notin METRIC_DISPATCHER
    /\ logged' = logged \cup {"not found"}
    /\ idx' = Len(metrics) + 1
    /\ UNCHANGED <<pc, ttl_ok, metrics, csv_writable, results, invoked,
                   handlers, csvfile, calls, exit, checkVars, bandVars>>

\* Lines 69-71: a name that is no key of the dispatcher is skipped.
SkipUnknown ==
    /\ pc = "loop"
    /\ idx <= Len(metrics)
    /\ metrics[idx] \notin METRIC_DISPATCHER
    /\ logged' = logged \cup {"not found"}
    /\ idx' = idx + 1
    /\ UNCHANGED <<pc, ttl_ok, metrics, csv_writable, results, invoked,
                   handlers, csvfile, calls, exit, checkVars, bandVars>>

\* RunMetric without the try/except: what the metric raises leaves the
\* function, no row is appended and the loop is abandoned.
RunMetricNoCatch ==
    /\ pc = "loop"
    /\ idx <= Len(metrics)
    /\ metrics[idx] \in METRIC_DISPATCHER
    /\ \E o \in MetricCall(metrics[idx], ttl_ok) :
          /\ invoked' = Append(invoked, [pos |-> idx, name |-> metrics[idx],
                                         raised |-> o.raised, value |-> o.value,
                                         msg |-> o.msg])
          /\ IF o.raised
             THEN /\ pc' = "idle"
                  /\ exit' = "Exception"
                  /\ UNCHANGED <<results, idx>>
             ELSE /\ results' = Append(results, SuccessRow(metrics[idx], o.value))
                  /\ idx' = idx + 1
                  /\ UNCHANGED <<pc, exit>>
    /\ UNCHANGED <<ttl_ok, metrics, csv_writable, handlers, csvfile,
                   logged, calls, checkVars, bandVars>>

\* Lines 73-83: the metric is called inside try/except Exception and a row
\* is appended either way.
RunMetric ==
    /\ pc = "loop"
    /\ idx <= Len(metrics)
    /\ metrics[idx] \in METRIC_DISPATCHER
    /\ \E o \in MetricCall(metrics[idx], ttl_ok) :
          /\ invoked' = Append(invoked, [pos |-> idx, name |-> metrics[idx],
                                         raised |-> o.raised, value |-> o.value,
                                         msg |-> o.msg])
          /\ results' = Append(results,
                               IF o.raised THEN ErrorRow(metrics[idx], o.msg)
                               ELSE SuccessRow(metrics[idx], o.value))
    /\ idx' = idx + 1
    /\ UNCHANGED <<pc, ttl_ok, metrics, csv_writable, handlers, csvfile,
                   logged, calls, exit, checkVars, bandVars>>

\* Line 68: the for loop is exhausted.
EndLoop ==
    /\ pc = "loop"
    /\ idx > Len(metrics)
    /\ pc' = "csv"
    /\ UNCHANGED <<ttl_ok, metrics, csv_writable, idx, results, invoked,
                   handlers, csvfile, logged, calls, exit, checkVars, bandVars>>

\* Lines 85-93: the CSV is written inside try/except IOError. An exception
\* that is no IOError leaves the function: lines 95-96 are not reached.
WriteCsv ==
    /\ pc = "csv"
    /\ LET r == OpenForWrite(csv_writable, CsvEncoding) IN
       CASE r = "ok" ->
              /\ csvfile' = [exists |-> TRUE, header |-> fieldnames,
                             rows |-> results]
              /\ logged' = logged \cup {"wrote results"}
              /\ pc' = "finish"
              /\ UNCHANGED exit
         [] r = "IOError" ->
              /\ logged' = logged \cup {"failed to write"}
              /\ pc' = "finish"
              /\ UNCHANGED <<csvfile, exit>>
         [] OTHER ->
              /\ csvfile' = EmptyFile
              /\ exit' = r
              /\ pc' = "idle"
              /\ UNCHANGED logged
    /\ UNCHANGED <<ttl_ok, metrics, csv_writable, idx, results, invoked,
                   handlers, calls, checkVars, bandVars>>

\* Lines 95-96: "Assessment Complete" is logged and the console handler of
\* this call removed.
Finish ==
    /\ pc = "finish"
    /\ logged' = logged \cup {"complete"}
    /\ handlers' = [handlers EXCEPT !.console = @ - 1]
    /\ exit' = "returned"
    /\ pc' = "idle"
    /\ UNCHANGED <<ttl_ok, metrics, csv_writable, idx, results, invoked,
                   csvfile, calls, checkVars, bandVars>>

OrchInit ==
    /\ pc = "idle"
    /\ ttl_ok = TRUE
    /\ metrics = <<>>
    /\ csv_writable = TRUE
    /\ idx = 1
    /\ results = <<>>
    /\ invoked = <<>>
    /\ handlers = [file |-> FALSE, console |-> 0]
    /\ csvfile = NoFile
    /\ logged = {}
    /\ calls = 0
    /\ exit = "none"

OrchOff ==
    /\ pc = "off"
    /\ ttl_ok = TRUE
    /\ metrics = <<>>
    /\ csv_writable = TRUE
    /\ idx = 1
    /\ results = <<>>
    /\ invoked = <<>>
    /\ handlers = [file |-> FALSE, console |-> 0]
    /\ csvfile = NoFile
    /\ logged = {}
    /\ calls = 0
    /\ exit = "none"

-----------------------------------------------------------------------------
(* Qualitative banding: _print_summary_statistics, with the thresholds     *)
(* documented in altLabelCheck.py and defCheck.py.                         *)

\* The alt-label table written lowest threshold first.
AltLabelThresholdsAscending ==
    <<[min |-> 20, label |-> "Low"], [min |-> 40, label |-> "Moderate"],
      [min |-> 60, label |-> "Good"], [min |-> 80, label |-> "Excellent"]>>

\* altLabelCheck.py, Notes: >=80 Excellent, >=60 Good, >=40 Moderate,
\* >=20 Low, <20 Very low. Highest threshold first.
AltLabelThresholds ==
    <<[min |-> 80, label |-> "Excellent"], [min |-> 60, label |-> "Good"],
      [min |-> 40, label |-> "Moderate"], [min |-> 20, label |-> "Low"]>>

\* defCheck.py, Notes: >=90 Excellent, >=75 Good, >=50 Moderate, >=25 Low,
\* <25 Very low. Highest threshold first.
DefinitionThresholds ==
    <<[min |-> 90, label |-> "Excellent"], [min |-> 75, label |-> "Good"],
      [min |-> 50, label |-> "Moderate"], [min |-> 25, label |-> "Low"]>>

\* The catch-all lowest band of both tables.
CatchAll == "Very low"

Thresholds(kind) ==
    IF kind = "alt" THEN AltLabelThresholds ELSE DefinitionThresholds

\* coveragePercent = covered / total * 100 (0 when total is 0), kept in
\* tenths of a percent, rounded down.
CoveragePercent10(covered, total) ==
    IF total = 0 THEN 0 ELSE (covered * 1000) \div total

\* coveragePercent >= min, decided exactly: covered / total * 100 >= min.
\* (The floating-point quotient agrees with the exact one at every integer
\* threshold for the class counts of the model.)
AtLeast(covered, total, min) ==
    IF total = 0 THEN 0 >= min ELSE covered * 100 >= min * total

\* First match wins over the ordered (minPercent, label) pairs.
RECURSIVE FirstMatch(_, _, _)
FirstMatch(table, covered, total) ==
    IF table = <<>> THEN CatchAll
    ELSE IF AtLeast(covered, total, Head(table).min) THEN Head(table).label
    ELSE FirstMatch(Tail(table), covered, total)

Band(kind, covered, total) == FirstMatch(Thresholds(kind), covered, total)

\* The banding applied to a pair of class counts.
Classify ==
    /\ spc = "input"
    /\ band' = Band(tbl, n_with, n_total)
    /\ percent10' = CoveragePercent10(n_with, n_total)
    /\ spc' = "done"
    /\ UNCHANGED <<tbl, n_with, n_total, orchVars, checkVars>>

BandInit ==
    /\ spc = "input"
    /\ tbl \in {"alt", "def"}
    /\ n_total \in 1..MaxTotal
    /\ n_with \in 0..n_total
    /\ band = "none"
    /\ percent10 = 0

BandOff ==
    /\ spc = "off"
    /\ tbl = "alt"
    /\ n_total = 1
    /\ n_with = 0
    /\ band = "none"
    /\ percent10 = 0

-----------------------------------------------------------------------------
(* The statement graph, as far as the two coverage checks read it.         *)

\* Entities: two IRIs, in identifier order, and one blank node.
IRIs == {"A", "B"}
BlankNodes == {"_:b"}
Nodes == IRIs \cup BlankNodes
NodeOrder == <<"A", "B", "_:b">>

\* A string is a sequence of characters.
Whitespace == {" ", "\t", "\n"}
Alphabet == {" ", "x"}
Strings(n) == UNION {[1..k -> Alphabet] : k \in 0..n}

Literal(s) == [kind |-> "literal", str |-> s]
IriObject == [kind |-> "iri", str |-> <<"x">>]

\* str.strip(): leading, then trailing whitespace removed.
RECURSIVE LStrip(_)
LStrip(s) ==
    IF s # <<>> /\ Head(s) \in Whitespace THEN LStrip(Tail(s)) ELSE s
RECURSIVE RStrip(_)
RStrip(s) ==
    IF s # <<>> /\ s[Len(s)] \in Whitespace
    THEN RStrip(SubSeq(s, 1, Len(s) - 1)) ELSE s
Strip(s) == RStrip(LStrip(s))

\* A valid annotation value: a literal that is non-empty after trimming.
\* A non-literal object is ignored.
IsValid(v) == v.kind = "literal" /\ Strip(v.str) # <<>>

\* The sets of values one class may carry for the annotation predicate of
\* the check (skos:altLabel or skos:definition).
ValueSets ==
    {S \in SUBSET ({Literal(s) : s \in Strings(MaxLen)} \cup {IriObject}) :
        Cardinality(S) <= MaxValues}

\* Representative value sets: none, only empty or blank literals, a padded
\* label, an empty and a valid literal together, only a non-literal object.
SampleValueSets ==
    {{}, {Literal(<<>>)}, {Literal(<<" ", " ">>)},
     {Literal(<<" ", "x", " ">>)}, {Literal(<<>>), Literal(<<"x">>)},
     {IriObject}}

\* The class declarations of a graph: the nodes typed owl:Class or
\* rdfs:Class, and the rdfs:subClassOf edges.
Structures ==
    {[typed |-> {}, sub |-> {}],
     [typed |-> {"_:b"}, sub |-> {}],
     [typed |-> {"A"}, sub |-> {}],
     [typed |-> {}, sub |-> {<<"B", "A">>}],
     [typed |-> {"A", "_:b"}, sub |-> {<<"_:b", "A">>}],
     [typed |-> {"A", "B"}, sub |-> {}]}

EmptyGraph ==
    [typed |-> {}, sub |-> {}, vals |-> [n \in Nodes |-> {}]]

MakeGraph(st, va, vb) ==
    [typed |-> st.typed, sub |-> st.sub,
     vals |-> [n \in Nodes |-> IF n = "A" THEN va ELSE IF n = "B" THEN vb ELSE {}]]

\* The entities of S in identifier order.
SortedSeq(S) == SelectSeq(NodeOrder, LAMBDA n : n \in S)

\* _find_all_named_classes: the union of the declaration rules (typed as a
\* class, subject of a subclass edge, object of a subclass edge), IRIs only.
FindAllNamedClasses(graph) ==
    {n \in IRIs : \/ n \in graph.typed
                  \/ \E e \in graph.sub : e[1] = n
                  \/ \E e \in graph.sub : e[2] = n}

\* _analyze_altlabel_coverage / _analyze_definition_coverage: one pass over
\* the classes; a class with at least one valid value goes to the first
\* collection, any other class to the second.
RECURSIVE CoverageLoop(_, _, _, _)
CoverageLoop(graph, todo, with, without) ==
    IF todo = <<>> THEN <<with, without>>
    ELSE LET cls == Head(todo)
             valid == {v \in graph.vals[cls] : IsValid(v)}
         IN  IF valid # {}
             THEN CoverageLoop(graph, Tail(todo), with \cup {cls}, without)
             ELSE CoverageLoop(graph, Tail(todo), with, without \cup {cls})

AnalyzeCoverage(graph, classes) ==
    CoverageLoop(graph, SortedSeq(classes), {}, {})

\* _export_missing_altlabels_template: one skeleton per class, sorted by
\* identifier; TemplateWriteError when the destination cannot be written.
ExportTemplate(classes, writable) ==
    IF writable THEN [raised |-> FALSE, file |-> SortedSeq(classes)]
    ELSE [raised |-> TRUE, file |-> <<>>]

-----------------------------------------------------------------------------
(* altLabelCheck.py and defCheck.py: the two main functions.               *)

ShowChoices == {"all", "with", "without", "summary"}

\* args.export_template: absent (None), or the file name given.
NoneArg == "<None>"
ExportArgs == {NoneArg, "", "missing_labels.ttl"}
\* Python truthiness of the argument: None and the empty string are false.
Truthy(arg) == arg # NoneArg /\ arg # ""

NoSummary == [shown |-> FALSE, percent10 |-> 0, band |-> "none"]

\* Parse whose except clauses print the message and do not return.
ParseNoReturn ==
    /\ cpc = "parse"
    /\ IF file = "ok"
       THEN /\ g' = content
            /\ printed' = printed \cup {"parsing"}
       ELSE /\ printed' = printed \cup
                  {"parsing", IF file = "missing" THEN "file not found"
                              ELSE "error while parsing"}
            /\ UNCHANGED g
    /\ cpc' = "discover"
    /\ UNCHANGED <<check, file, content, show, export_template, dest_writable,
                   all_classes, classes_with, classes_without, executed,
                   summary, template, cexit, orchVars, bandVars>>

\* Lines 103-119 (102-118 in defCheck.py): the file is parsed; both except
\* clauses print a message and return.
Parse ==
    /\ cpc = "parse"
    /\ IF file = "ok"
       THEN /\ g' = content
            /\ printed' = printed \cup {"parsing"}
            /\ cpc' = "discover"
            /\ UNCHANGED cexit
       ELSE /\ printed' = printed \cup
                  {"parsing", IF file = "missing" THEN "file not found"
                              ELSE "error while parsing"}
            /\ cpc' = "done"
            /\ cexit' = "returned"
            /\ UNCHANGED g
    /\ UNCHANGED <<check, file, content, show, export_template, dest_writable,
                   all_classes, classes_with, classes_without, executed,
                   summary, template, orchVars, bandVars>>

\* Discover without the empty-ontology guard.
DiscoverNoGuard ==
    /\ cpc = "discover"
    /\ all_classes' = FindAllNamedClasses(g)
    /\ executed' = executed \cup {"_find_all_named_classes"}
    /\ cpc' = "analyze"
    /\ UNCHANGED <<check, file, content, g, show, export_template,
                   dest_writable, classes_with, classes_without, printed,
                   summary, template, cexit, orchVars, bandVars>>

\* Lines 121-125 (120-124): class discovery and the empty-ontology guard.
Discover ==
    /\ cpc = "discover"
    /\ all_classes' = FindAllNamedClasses(g)
    /\ executed' = executed \cup {"_find_all_named_classes"}
    /\ IF all_classes' = {}
       THEN /\ printed' = printed \cup {"no named classes"}
            /\ cpc' = "done"
            /\ cexit' = "returned"
       ELSE /\ cpc' = "analyze"
            /\ UNCHANGED <<printed, cexit>>
    /\ UNCHANGED <<check, file, content, g, show, export_template,
                   dest_writable, classes_with, classes_without, summary,
                   template, orchVars, bandVars>>

\* Analyze with the returned pair unpacked in the wrong order.
AnalyzeSwapped ==
    /\ cpc = "analyze"
    /\ LET r == AnalyzeCoverage(g, all_classes) IN
          /\ classes_with' = r[2]
          /\ classes_without' = r[1]
    /\ executed' = executed \cup {"_analyze_coverage"}
    /\ cpc' = "summary"
    /\ UNCHANGED <<check, file, content, g, show, export_template,
                   dest_writable, all_classes, printed, summary, template,
                   cexit, orchVars, bandVars>>

\* Lines 127-128 (126-127): coverage analysis; the pair returned is unpacked
\* into the covered and the uncovered classes.
Analyze ==
    /\ cpc = "analyze"
    /\ LET r == AnalyzeCoverage(g, all_classes) IN
          /\ classes_with' = r[1]
          /\ classes_without' = r[2]
    /\ executed' = executed \cup {"_analyze_coverage"}
    /\ cpc' = "summary"
    /\ UNCHANGED <<check, file, content, g, show, export_template,
                   dest_writable, all_classes, printed, summary, template,
                   cexit, orchVars, bandVars>>

\* Lines 131-132 (130-131): the summary statistics, with the band.
ShowSummary ==
    /\ cpc = "summary"
    /\ IF show \in {"summary", "all"}
       THEN /\ executed' = executed \cup {"_print_summary_statistics"}
            /\ summary' =
                 [shown |-> TRUE,
                  percent10 |-> CoveragePercent10(Cardinality(classes_with),
                                                  Cardinality(all_classes)),
                  band |-> Band(check, Cardinality(classes_with),
                                Cardinality(all_classes))]
       ELSE UNCHANGED <<executed, summary>>
    /\ cpc' = "with"
    /\ UNCHANGED <<check, file, content, g, show, export_template,
                   dest_writable, all_classes, classes_with, classes_without,
                   printed, template, cexit, orchVars, bandVars>>

\* Lines 134-135 (133-134): the classes with the annotation.
ShowWith ==
    /\ cpc = "with"
    /\ IF show \in {"with", "all"}
       THEN executed' = executed \cup {"_print_classes_with"}
       ELSE UNCHANGED executed
    /\ cpc' = "without"
    /\ UNCHANGED <<check, file, content, g, show, export_template,
                   dest_writable, all_classes, classes_with, classes_without,
                   printed, summary, template, cexit, orchVars, bandVars>>

\* Lines 137-138 (136-137): the classes without the annotation. The
\* definition check ends here.
ShowWithout ==
    /\ cpc = "without"
    /\ IF show \in {"without", "all"}
       THEN executed' = executed \cup {"_print_classes_without"}
       ELSE UNCHANGED executed
    /\ IF check = "alt"
       THEN /\ cpc' = "export"
            /\ UNCHANGED cexit
       ELSE /\ cpc' = "done"
            /\ cexit' = "returned"
    /\ UNCHANGED <<check, file, content, g, show, export_template,
                   dest_writable, all_classes, classes_with, classes_without,
                   printed, summary, template, orchVars, bandVars>>

\* Export that calls the exporter whenever a file name is given, also for
\* an empty set of classes.
ExportAlways ==
    /\ cpc = "export"
    /\ IF Truthy(export_template)
       THEN LET r == ExportTemplate(classes_without, dest_writable) IN
               /\ executed' = executed \cup {"_export_template"}
               /\ template' = IF r.raised THEN template
                              ELSE [exists |-> TRUE, lines |-> r.file]
               /\ cexit' = IF r.raised THEN "TemplateWriteError"
                           ELSE "returned"
       ELSE /\ cexit' = "returned"
            /\ UNCHANGED <<executed, template>>
    /\ cpc' = "done"
    /\ UNCHANGED <<check, file, content, g, show, export_template, printed,
                   dest_writable, all_classes, classes_with, classes_without,
                   summary, orchVars, bandVars>>

\* Export whose failure discards the coverage results computed before it.
ExportInvalidating ==
    /\ cpc = "export"
    /\ IF Truthy(export_template) /\ classes_without # {}
       THEN LET r == ExportTemplate(classes_without, dest_writable) IN
               /\ executed' = executed \cup {"_export_template"}
               /\ template' = IF r.raised THEN template
                              ELSE [exists |-> TRUE, lines |-> r.file]
               /\ cexit' = IF r.raised THEN "TemplateWriteError"
                           ELSE "returned"
               /\ classes_with' = IF r.raised THEN {} ELSE classes_with
               /\ classes_without' = IF r.raised THEN {} ELSE classes_without
               /\ UNCHANGED printed
       ELSE IF Truthy(export_template) /\ classes_without = {}
       THEN /\ printed' = printed \cup {"no template needed"}
            /\ cexit' = "returned"
            /\ UNCHANGED <<executed, template, classes_with, classes_without>>
       ELSE /\ cexit' = "returned"
            /\ UNCHANGED <<executed, template, printed, classes_with,
                           classes_without>>
    /\ cpc' = "done"
    /\ UNCHANGED <<check, file, content, g, show, export_template,
                   dest_writable, all_classes, summary, orchVars, bandVars>>

\* Lines 140-144 of altLabelCheck.py: the template export. The call is
\* outside any try block: what the exporter raises leaves the function.
Export ==
    /\ cpc = "export"
    /\ IF Truthy(export_template) /\ classes_without # {}
       THEN LET r == ExportTemplate(classes_without, dest_writable) IN
               /\ executed' = executed \cup {"_export_template"}
               /\ template' = IF r.raised THEN template
                              ELSE [exists |-> TRUE, lines |-> r.file]
               /\ cexit' = IF r.raised THEN "TemplateWriteError"
                           ELSE "returned"
               /\ UNCHANGED printed
       ELSE IF Truthy(export_template) /\ classes_without = {}
       THEN /\ printed' = printed \cup {"no template needed"}
            /\ cexit' = "returned"
            /\ UNCHANGED <<executed, template>>
       ELSE /\ cexit' = "returned"
            /\ UNCHANGED <<executed, template, printed>>
    /\ cpc' = "done"
    /\ UNCHANGED <<check, file, content, g, show, export_template,
                   dest_writable, all_classes, classes_with, classes_without,
                   summary, orchVars, bandVars>>

\* The coverage analysis applied on its own to a class set and a graph.
AnalyzeOnly ==
    /\ cpc = "coverage"
    /\ LET r == AnalyzeCoverage(g, all_classes) IN
          /\ classes_with' = r[1]
          /\ classes_without' = r[2]
    /\ executed' = executed \cup {"_analyze_coverage"}
    /\ cpc' = "done"
    /\ cexit' = "returned"
    /\ UNCHANGED <<check, file, content, g, show, export_template,
                   dest_writable, all_classes, printed, summary, template,
                   orchVars, bandVars>>

NoTemplate == [exists |-> FALSE, lines |-> <<>>]

\* A run of one of the two main functions from the command line.
MainInit ==
    /\ cpc = "parse"
    /\ check \in {"alt", "def"}
    /\ file \in {"ok", "missing", "malformed"}
    /\ content \in IF file = "ok"
                   THEN {MakeGraph(st, va, vb) :
                            st \in Structures, va \in SampleValueSets,
                            vb \in {{}, {Literal(<<"x">>)}}}
                   ELSE {EmptyGraph}
    /\ g = EmptyGraph
    /\ show \in ShowChoices
    /\ export_template \in IF check = "alt" THEN ExportArgs ELSE {NoneArg}
    /\ dest_writable \in IF Truthy(export_template) THEN BOOLEAN ELSE {TRUE}
    /\ all_classes = {}
    /\ classes_with = {}
    /\ classes_without = {}
    /\ executed = {}
    /\ printed = {}
    /\ summary = NoSummary
    /\ template = NoTemplate
    /\ cexit = "running"

\* The coverage analysis given any class set and any graph within the bounds.
CoverageInit ==
    /\ cpc = "coverage"
    /\ check \in {"alt", "def"}
    /\ file = "ok"
    /\ content = EmptyGraph
    /\ g \in {MakeGraph([typed |-> {}, sub |-> {}], va, vb) :
                 va \in ValueSets, vb \in SampleValueSets}
    /\ show = "all"
    /\ export_template = NoneArg
    /\ dest_writable = TRUE
    /\ all_classes \in SUBSET IRIs
    /\ classes_with = {}
    /\ classes_without = {}
    /\ executed = {}
    /\ printed = {}
    /\ summary = NoSummary
    /\ template = NoTemplate
    /\ cexit = "running"

CheckOff ==
    /\ cpc = "off"
    /\ check = "alt"
    /\ file = "ok"
    /\ content = EmptyGraph
    /\ g = EmptyGraph
    /\ show = "all"
    /\ export_template = NoneArg
    /\ dest_writable = TRUE
    /\ all_classes = {}
    /\ classes_with = {}
    /\ classes_without = {}
    /\ executed = {}
    /\ printed = {}
    /\ summary = NoSummary
    /\ template = NoTemplate
    /\ cexit = "none"

-----------------------------------------------------------------------------
(* The specification.                                                      *)

Init ==
    \/ OrchInit /\ CheckOff /\ BandOff
    \/ OrchOff /\ MainInit /\ BandOff
    \/ OrchOff /\ CoverageInit /\ BandOff
    \/ OrchOff /\ CheckOff /\ BandInit

Next ==
    \/ Call
    \/ SkipUnknown
    \/ RunMetric
    \/ EndLoop
    \/ WriteCsv
    \/ Finish
    \/ Parse
    \/ Discover
    \/ Analyze
    \/ ShowSummary
    \/ ShowWith
    \/ ShowWithout
    \/ Export
    \/ AnalyzeOnly
    \/ Classify

Spec == Init /\ [][Next]_vars

-----------------------------------------------------------------------------
(* Properties of run_ontology_assessment.                                  *)

Known(name) == name \in METRIC_DISPATCHER

\* The positions of ms that hold a key of the dispatcher, in order.
KnownPositions(ms) ==
    SelectSeq([j \in 1..Len(ms) |-> j], LAMBDA j : Known(ms[j]))

\* The metric loop of the current call has ended, or the call itself has.
LoopEnded == pc \in {"csv", "finish"} \/ (pc = "idle" /\ calls > 0)

\* C1: per-metric failure isolation. Whatever the metric at a position
\* raises is caught inside the loop and recorded as the error row of that
\* metric only (one row per invocation, at the same index, carrying the
\* metric's name and message), and when the loop has ended every position
\* holding a known metric has been invoked, those after a failing one
\* included.
C1_FailureIsolation ==
    /\ pc = "loop" => exit = "running"
    /\ Len(results) = Len(invoked)
    /\ \A k \in 1..Len(invoked) :
          /\ results[k].Metric = invoked[k].name
          /\ invoked[k].raised =>
                results[k] = ErrorRow(invoked[k].name, invoked[k].msg)
    /\ LoopEnded =>
          [k \in 1..Len(invoked) |-> invoked[k].pos] = KnownPositions(metrics)

\* A metric raised and a metric at a later position was invoked after it.
C1_Witness ==
    /\ pc = "csv"
    /\ \E k \in 1..Len(invoked) :
          /\ invoked[k].raised
          /\ k < Len(invoked)
          /\ ~invoked[k + 1].raised

\* C2: when the metric loop has ended the result table holds exactly one
\* row per requested name that is a key of METRIC_DISPATCHER, in request
\* order (a repeated name gives a row each time, an unknown name none), and
\* each row is either a Success row carrying the value the metric returned
\* or an Error row with the message raised and score "N/A".
C2_ResultTable ==
    pc \in {"csv", "finish"} =>
       /\ [k \in 1..Len(results) |-> results[k].Metric]
             = SelectSeq(metrics, Known)
       /\ Len(invoked) = Len(results)
       /\ \A k \in 1..Len(results) :
             \/ /\ ~invoked[k].raised
                /\ results[k].Status = <<"Success">>
                /\ results[k].Score = invoked[k].value
             \/ /\ invoked[k].raised
                /\ results[k].Status = <<"Error: ", invoked[k].msg>>
                /\ results[k].Score = "N/A"

\* A known name requested twice around an unknown one: two rows, one
\* Success and one Error.
C2_Witness ==
    /\ pc = "csv"
    /\ metrics = <<"isolatedElements", "noSuchMetric", "isolatedElements">>
    /\ Len(results) = 2
    /\ results[1].Status = <<"Success">>
    /\ results[2].Score = "N/A"

\* C3: once all metrics have run and the output path is writable, the CSV
\* file holds the header Metric, Score, Status and every result row.
C3_CsvPersisted ==
    (pc = "idle" /\ calls > 0 /\ csv_writable) =>
       csvfile = [exists |-> TRUE, header |-> fieldnames, rows |-> results]

\* C10: every call of run_ontology_assessment runs to completion:
\* "Assessment Complete" is logged and the console handler of the call is
\* removed, so between calls no console handler is attached to the root
\* logger.
C10_CallCompletes ==
    (pc = "idle" /\ calls > 0) =>
       /\ exit = "returned"
       /\ "complete" \in logged
       /\ handlers.console = 0

-----------------------------------------------------------------------------
(* Properties of the two coverage checks.                                  *)

AfterDiscovery ==
    {"_analyze_coverage", "_print_summary_statistics", "_print_classes_with",
     "_print_classes_without", "_export_template"}

\* C4: empty-ontology guard. When class discovery returns no named class
\* the alt-label check and the definition check stop there: coverage
\* analysis, the display steps and the template export are never executed.
C4_EmptyOntologyGuard ==
    ("_find_all_named_classes" \in executed /\ all_classes = {}) =>
       /\ cpc = "done"
       /\ cexit = "returned"
       /\ executed \cap AfterDiscovery = {}
       /\ ~summary.shown
       /\ ~template.exists

\* A graph whose only class-typed node is a blank node: discovery ran and
\* found nothing.
C4_Witness ==
    /\ cpc = "done"
    /\ "_find_all_named_classes" \in executed
    /\ all_classes = {}
    /\ g.typed = {"_:b"}
    /\ "no named classes" \in printed

ExportStepDone ==
    cpc = "done" /\ check = "alt" /\ "_analyze_coverage" \in executed

\* C6 as stated: when --export-template is given and no class lacks an
\* altLabel, the exporter is not called, no file is written, the "no
\* template needed" message is printed and nothing is raised; the exporter
\* is called only when the option is given and some class lacks an altLabel.
C6_EmptyExportNoOp ==
    /\ (ExportStepDone /\ export_template # NoneArg /\ classes_without = {}) =>
          /\ "_export_template" \notin executed
          /\ ~template.exists
          /\ "no template needed" \in printed
          /\ cexit = "returned"
    /\ "_export_template" \in executed =>
          (export_template # NoneArg /\ classes_without # {})

\* C6 as amended: the same, for an option given with a non-empty file name.
C6_EmptyExportNoOpNamed ==
    /\ (ExportStepDone /\ Truthy(export_template) /\ classes_without = {}) =>
          /\ "_export_template" \notin executed
          /\ ~template.exists
          /\ "no template needed" \in printed
          /\ cexit = "returned"
    /\ "_export_template" \in executed =>
          (Truthy(export_template) /\ classes_without # {})

\* An export requested for an ontology whose classes all have an altLabel.
C6_Witness ==
    /\ cpc = "done"
    /\ check = "alt"
    /\ Truthy(export_template)
    /\ all_classes # {}
    /\ classes_without = {}
    /\ "no template needed" \in printed

\* C7: a template export failure aborts only the export step. The covered
\* and uncovered sets are still the ones coverage analysis computed, every
\* display step the --show choice asks for has run, and the failure is what
\* the check ends with.
C7_ExportFailureKeepsResults ==
    cexit = "TemplateWriteError" =>
       /\ cpc = "done"
       /\ <<classes_with, classes_without>> = AnalyzeCoverage(g, all_classes)
       /\ classes_with \cup classes_without = all_classes
       /\ show \in {"summary", "all"} =>
             /\ "_print_summary_statistics" \in executed
             /\ summary.shown
             /\ summary.percent10 =
                   (Cardinality(classes_with) * 1000)
                      \div Cardinality(all_classes)
       /\ show \in {"with", "all"} => "_print_classes_with" \in executed
       /\ show \in {"without", "all"} => "_print_classes_without" \in executed
       /\ ~template.exists

\* The export failed after a summary over a covered and an uncovered class.
C7_Witness ==
    /\ cexit = "TemplateWriteError"
    /\ show = "all"
    /\ classes_with # {}
    /\ classes_without # {}
    /\ summary.shown

\* The literal has a character that is not whitespace.
HasVisibleChar(v) ==
    v.kind = "literal" /\ \E k \in 1..Len(v.str) : v.str[k] \notin Whitespace

\* C8: coverage partition. After coverage analysis the covered and the
\* uncovered set are disjoint, their union is the class set, their sizes add
\* up to its size, and a class is covered iff one of its values is a literal
\* that is non-empty after trimming whitespace.
C8_CoveragePartition ==
    "_analyze_coverage" \in executed =>
       /\ classes_with \cap classes_without = {}
       /\ classes_with \cup classes_without = all_classes
       /\ Cardinality(classes_with) + Cardinality(classes_without)
             = Cardinality(all_classes)
       /\ \A c \in all_classes :
             c \in classes_with <=> \E v \in g.vals[c] : HasVisibleChar(v)

\* Both sets non-empty, and an uncovered class that does carry a value: a
\* literal of blanks only, or a non-literal object.
C8_Witness ==
    /\ "_analyze_coverage" \in executed
    /\ classes_with # {}
    /\ \E c \in classes_without : g.vals[c] # {}

-----------------------------------------------------------------------------
(* Properties of the banding.                                              *)

\* The thresholds of table T that the percentage covered/total reaches.
Reached(T, covered, total) ==
    {k \in 1..Len(T) : T[k].min * total <= covered * 100}

\* C9: the banding is total and first-match over thresholds ordered highest
\* first: the band of a percentage is the label of the highest threshold not
\* above it, and the catch-all band when it reaches none; under the
\* alt-label thresholds 6 covered classes out of 10 are 60.0 percent, "Good".
C9_Banding ==
    spc = "done" =>
       /\ LET T == Thresholds(tbl)
              R == Reached(T, n_with, n_total)
          IN  IF R = {} THEN band = CatchAll
              ELSE \E k \in R : /\ \A j \in R : T[j].min <= T[k].min
                                /\ band = T[k].label
       /\ (tbl = "alt" /\ n_with = 6 /\ n_total = 10) =>
             (band = "Good" /\ percent10 = 600)

\* Scenario A: 6 covered classes of 10 under the alt-label thresholds.
C9_Witness ==
    /\ spc = "done"
    /\ tbl = "alt"
    /\ n_with = 6
    /\ n_total = 10
    /\ band = "Good"

=============================================================================
